---- MODULE Spec2Model ----
(***************************************************************************)
(* ESG document store (vectorstore/chromaManager.js) and the analytics     *)
(* tools that consume it (agents/tools/esgAnalyzer.js).                    *)
(*                                                                         *)
(* The remote vector store holds the collections of one configured name;   *)
(* every ChromaManager instance (one per process) keeps its own isReady    *)
(* flag, client and collection handle.  Every await of a remote call is a  *)
(* step of its own, so calls of different processes interleave.            *)
(***************************************************************************)
EXTENDS Integers, Sequences, FiniteSets, TLC

\* ------------------------------------------------------------------ bounds

\* Collections the store may create under the configured name in one run.
MaxColls == 3
\* Remote calls that may fail for a reason of the transport or the server.
MaxFaults == 1
\* Records of the CSV file handed to addESGData.
MaxRecords == 2
\* Completed addESGData runs.
MaxRuns == 2
\* initialize() calls of one manager.
MaxInits == 2
\* Batch sizes of the ingestion loop that are tried.
MaxBatch == 2
\* Metadata records handed to calculateTrends and to assessRisks.
MaxTrendData == 3
MaxRiskData == 2
\* Hits handed to analyzeSectorMetrics: short lists of every kind of value, and
\* long lists of numbers that reach past the cut of the top performers.
MaxHits == 3
MaxLongHits == 11
\* Hits handed to analyzeESGData.
MaxESGHits == 2
\* Chat sessions uuidv4() may name, and exchanges stored in one session.
MaxSessions == 2
MaxExchanges == 2
LongExchanges == 24
\* Texts handed to chunkText, its chunk sizes, and the chunks one call is
\* followed for: more than a call that advances through a text of MaxText
\* characters pushes.
MaxText == 5
MaxChunkSize == 3
MaxChunks == 6

\* The ChromaManager instances, one per process.
Managers == {"p1", "p2"}

\* this.collection = null
NULL == 0

Uids == 1..MaxColls

VARIABLES
    client,       \* [m] this.client is set
    isReady,      \* [m] this.isReady
    collection,   \* [m] this.collection: NULL or the uid of the collection the handle names
    op,           \* [m] the public method in progress, "none" when idle
    pc,           \* [m] the await the method stands at
    calls,        \* [m] remote calls issued by the method in progress or last completed
    ret,          \* [m] how the last completed method ended
    collections,  \* store: uids of the collections that exist under the configured name
    documents,    \* store: uid -> the documents of that collection
    nextUid,      \* store: uid of the next collection created
    faults,       \* remote faults still to come
    files,        \* the contents the CSV file may have when it is read
    csv,          \* the parsed rows of the CSV file read by the run (Papa.parse(...).data)
    batchSize,    \* batch size of the ingestion loop
    idx,          \* [m] loop variable i of addESGData
    inits,        \* [m] initialize() calls made
    runs,         \* completed addESGData runs
    tool,         \* the last store query or analytics call: its input and its result
    sessions,     \* chat: the keys of the sessions Map
    transcripts,  \* chat: session id -> the messages array of that session object
    minted,       \* chat: the ids uuidv4() has given to sessions
    agentReady,   \* chat: app.locals.esgAgent is set and ready
    chat,         \* chat: [client] the /message request in progress
    reply,        \* chat: [client] the last response sent
    chunker       \* the chunkText call: its arguments, its start and its chunks

storeVars == <<collections, documents, nextUid>>
inputVars == <<csv, batchSize, inits>>
chatVars == <<sessions, transcripts, minted, agentReady, chat, reply>>
utilVars == <<chunker>>
vars == <<client, isReady, collection, op, pc, calls, ret, collections, documents,
          nextUid, faults, files, csv, batchSize, idx, inits, runs, tool,
          sessions, transcripts, minted, agentReady, chat, reply, chunker>>

\* ------------------------------------------------------------ the results

NoHits == <<>>

Ret(o, status, error, count, hits) ==
    [op |-> o, status |-> status, error |-> error, count |-> count, hits |-> hits]

NoRet == Ret("none", "none", "none", 0, NoHits)

NoTool == [fn |-> "none"]

\* No chunkText call.
NoChunker == [pc |-> "none"]

\* ------------------------------------------------------------- the store

\* A remote call answers, or fails while a fault is left to come.
Answers == {"ok"} \cup (IF faults > 0 THEN {"fault"} ELSE {})

Spend(o) == faults' = (IF o = "fault" THEN faults - 1 ELSE faults)

\* ------------------------------------------------- how a method ends

\* Faulty variant: the catch block of initialize() marks the manager ready.
Raise_MarksReady(m, err) ==
    /\ ret' = [ret EXCEPT ![m] = Ret(op[m], "raised", err, 0, NoHits)]
    /\ op' = [op EXCEPT ![m] = "none"]
    /\ pc' = [pc EXCEPT ![m] = "idle"]
    /\ isReady' = [isReady EXCEPT ![m] = TRUE]
    /\ UNCHANGED collection

\* The method of m raises err to its caller.  initialize() rethrows from its
\* catch block and leaves isReady as it was.
Raise(m, err) ==
    /\ ret' = [ret EXCEPT ![m] = Ret(op[m], "raised", err, 0, NoHits)]
    /\ op' = [op EXCEPT ![m] = "none"]
    /\ pc' = [pc EXCEPT ![m] = "idle"]
    /\ UNCHANGED <<isReady, collection>>

\* Faulty variant: initialize() never sets this.isReady.
EnsureReturns_NeverReady(m, h) ==
    /\ collection' = [collection EXCEPT ![m] = h]
    /\ UNCHANGED isReady
    /\ ret' = [ret EXCEPT ![m] = Ret(op[m], "ok", "none", 0, NoHits)]
    /\ op' = [op EXCEPT ![m] = "none"]
    /\ pc' = [pc EXCEPT ![m] = "idle"]

\* ensureCollection() returns with this.collection = h; initialize() then sets
\* isReady, resetCollection() and clearCollection() just return.
EnsureReturns(m, h) ==
    /\ collection' = [collection EXCEPT ![m] = h]
    /\ isReady' = [isReady EXCEPT ![m] = IF op[m] = "initialize" THEN TRUE ELSE @]
    /\ ret' = [ret EXCEPT ![m] = Ret(op[m], "ok", "none", 0, NoHits)]
    /\ op' = [op EXCEPT ![m] = "none"]
    /\ pc' = [pc EXCEPT ![m] = "idle"]

Call(m, name) == calls' = [calls EXCEPT ![m] = Append(@, name)]

\* ------------------------------------------------------------ initialize

\* initialize() up to its first await: the client is made when none was given.
Initialize(m) ==
    /\ pc[m] = "idle"
    /\ inits[m] < MaxInits
    /\ inits' = [inits EXCEPT ![m] = @ + 1]
    /\ client' = [client EXCEPT ![m] = TRUE]
    /\ op' = [op EXCEPT ![m] = "initialize"]
    /\ pc' = [pc EXCEPT ![m] = "list"]
    /\ calls' = [calls EXCEPT ![m] = <<>>]
    /\ UNCHANGED <<isReady, collection, ret, idx, storeVars, faults, csv, batchSize, files, chatVars, utilVars, runs, tool>>

\* ------------------------------------------------------- ensureCollection

\* Faulty variant: the find by name never finds the collection.
EnsureList_NeverFinds(m) ==
    /\ pc[m] = "list"
    /\ Call(m, "listCollections")
    /\ \E o \in Answers :
        /\ Spend(o)
        /\ IF o = "fault"
           THEN Raise(m, "remote")
           ELSE /\ pc' = [pc EXCEPT ![m] = "create"]
                /\ UNCHANGED <<isReady, collection, ret, op>>
    /\ UNCHANGED <<client, idx, storeVars, inputVars, files, chatVars, utilVars, runs, tool>>

\* await this.client.listCollections(), then the find by name.
EnsureList(m) ==
    /\ pc[m] = "list"
    /\ Call(m, "listCollections")
    /\ \E o \in Answers :
        /\ Spend(o)
        /\ IF o = "fault"
           THEN Raise(m, "remote")
           ELSE /\ pc' = [pc EXCEPT ![m] = IF collections # {} THEN "get" ELSE "create"]
                /\ UNCHANGED <<isReady, collection, ret, op>>
    /\ UNCHANGED <<client, idx, storeVars, inputVars, files, chatVars, utilVars, runs, tool>>

\* await this.client.getCollection(...): the attach of an existing collection
\* (pc "get") and the single retry after an already-exists error (pc "retry").
EnsureGet(m) ==
    /\ pc[m] \in {"get", "retry"}
    /\ Call(m, "getCollection")
    /\ \E o \in Answers :
        /\ Spend(o)
        /\ IF o = "fault"
           THEN Raise(m, "remote")
           ELSE IF collections = {}
           THEN Raise(m, "notfound")
           ELSE \E u \in collections : EnsureReturns(m, u)
    /\ UNCHANGED <<client, idx, storeVars, inputVars, files, chatVars, utilVars, runs, tool>>

\* Faulty variant: the already-exists error of createCollection is rethrown like any other.
OnAlreadyExists_Rethrown(m) == Raise(m, "exists")

\* Faulty variant: createCollection is tried again after an already-exists error.
OnAlreadyExists_CreateAgain(m) ==
    /\ pc' = [pc EXCEPT ![m] = "create"]
    /\ UNCHANGED <<isReady, collection, ret, op>>

\* What ensureCollection does with an already-exists error of createCollection.
OnAlreadyExists(m) ==
    /\ pc' = [pc EXCEPT ![m] = "retry"]
    /\ UNCHANGED <<isReady, collection, ret, op>>

\* await this.client.createCollection(...).
EnsureCreate(m) ==
    /\ pc[m] = "create"
    /\ Call(m, "createCollection")
    /\ \E o \in Answers :
        /\ Spend(o)
        /\ IF o = "fault"
           THEN Raise(m, "remote") /\ UNCHANGED storeVars
           ELSE IF collections # {}
           THEN OnAlreadyExists(m) /\ UNCHANGED storeVars
           ELSE /\ nextUid <= MaxColls
                /\ collections' = {nextUid}
                /\ documents' = [documents EXCEPT ![nextUid] = {}]
                /\ nextUid' = nextUid + 1
                /\ EnsureReturns(m, nextUid)
    /\ UNCHANGED <<client, idx, inputVars, files, chatVars, utilVars, runs, tool>>

\* ------------------------------------- resetCollection, clearCollection

\* resetCollection() up to its first await.  Without a client the delete
\* throws a TypeError inside the try block, which is swallowed, and
\* ensureCollection() then rethrows the TypeError of listCollections.
ResetCollection(m) ==
    /\ pc[m] = "idle"
    /\ calls' = [calls EXCEPT ![m] = <<>>]
    /\ IF client[m]
       THEN /\ op' = [op EXCEPT ![m] = "resetCollection"]
            /\ pc' = [pc EXCEPT ![m] = "delete"]
            /\ UNCHANGED <<isReady, collection, ret>>
       ELSE /\ ret' = [ret EXCEPT ![m] = Ret("resetCollection", "raised", "TypeError", 0, NoHits)]
            /\ UNCHANGED <<isReady, collection, op, pc>>
    /\ UNCHANGED <<client, idx, storeVars, faults, inputVars, files, chatVars, utilVars, runs, tool>>

\* clearCollection() up to its first await: nothing at all without a handle.
ClearCollection(m) ==
    /\ pc[m] = "idle"
    /\ calls' = [calls EXCEPT ![m] = <<>>]
    /\ IF collection[m] # NULL
       THEN /\ op' = [op EXCEPT ![m] = "clearCollection"]
            /\ pc' = [pc EXCEPT ![m] = "delete"]
            /\ UNCHANGED <<isReady, collection, ret>>
       ELSE /\ ret' = [ret EXCEPT ![m] = Ret("clearCollection", "ok", "none", 0, NoHits)]
            /\ UNCHANGED <<isReady, collection, op, pc>>
    /\ UNCHANGED <<client, idx, storeVars, faults, inputVars, files, chatVars, utilVars, runs, tool>>

\* await this.client.deleteCollection(...) inside try/catch: the collection is
\* deleted, or the call fails (the collection is absent, or the store could not
\* delete it) and the error is logged; ensureCollection() follows either way.
Delete(m) ==
    /\ pc[m] = "delete"
    /\ Call(m, "deleteCollection")
    /\ \E o \in Answers :
        /\ Spend(o)
        /\ IF o = "ok" /\ collections # {}
           THEN /\ collections' = {}
                /\ documents' = [u \in Uids |-> IF u \in collections THEN {} ELSE documents[u]]
                /\ UNCHANGED nextUid
           ELSE UNCHANGED storeVars
    /\ pc' = [pc EXCEPT ![m] = "list"]
    /\ UNCHANGED <<client, isReady, collection, op, ret, idx, inputVars, files, chatVars, utilVars, runs, tool>>

\* ---------------------------------------------------------- the records

\* A parsed CSV row (dynamicTyping): an absent or empty Ticker is "", an absent
\* or zero Date is 0; both are falsy in `record.Ticker || ...`, `record.Date || ...`.
Tickers == {"", "A"}
Dates == {0, 1, 2020}
Scores == {50, 60}
Companies == {"Acme"}
Records == [Company : Companies, Ticker : Tickers, Date : Dates, total_esg_score : Scores]

SeqsUpTo(S, n) == UNION {[1..k -> S] : k \in 0..n}

\* `esg_${record.Ticker || 'unknown'}_${record.Date || startIndex + i}`, kept as
\* the pair of its two parts.
DocId(record, position) ==
    << IF record.Ticker # "" THEN record.Ticker ELSE "unknown",
       IF record.Date # 0 THEN record.Date ELSE position >>

\* The header lines of createDocumentText that the model keeps.
createDocumentText(record) ==
    [ticker |-> IF record.Ticker # "" THEN record.Ticker ELSE "N/A",
     date |-> IF record.Date # 0 THEN ToString(record.Date) ELSE "Unknown",
     total |-> ToString(record.total_esg_score)]

\* The metadata object processBatch pushes for a record.
Metadata(record) ==
    [company |-> record.Company,
     ticker |-> record.Ticker,
     date |-> record.Date,
     total_esg_score |-> record.total_esg_score,
     record_type |-> "esg_data"]

\* Faulty variant: the fallback of the id is the position within the batch.
ProcessBatch_BatchLocal(batch, startIndex) ==
    [documents |-> [i \in 1..Len(batch) |-> createDocumentText(batch[i])],
     metadatas |-> [i \in 1..Len(batch) |-> Metadata(batch[i])],
     ids |-> [i \in 1..Len(batch) |-> DocId(batch[i], i - 1)]]

\* Faulty variant: the ids are pushed in the reverse order of the records.
ProcessBatch_IdsReversed(batch, startIndex) ==
    [documents |-> [i \in 1..Len(batch) |-> createDocumentText(batch[i])],
     metadatas |-> [i \in 1..Len(batch) |-> Metadata(batch[i])],
     ids |-> [i \in 1..Len(batch) |->
                DocId(batch[Len(batch) + 1 - i], startIndex + (Len(batch) - i))]]

\* The three parallel arrays processBatch hands to collection.add; i counts
\* from 0 in the code and from 1 here.
ProcessBatch(batch, startIndex) ==
    [documents |-> [i \in 1..Len(batch) |-> createDocumentText(batch[i])],
     metadatas |-> [i \in 1..Len(batch) |-> Metadata(batch[i])],
     ids |-> [i \in 1..Len(batch) |-> DocId(batch[i], startIndex + (i - 1))]]

\* Faulty variant: every batch is cut from the start of the data.
Slice_FromStart(data, i, size) ==
    SubSeq(data, 1, IF size < Len(data) THEN size ELSE Len(data))

\* data.slice(i, i + batchSize)
Slice(data, i, size) ==
    SubSeq(data, i + 1, IF i + size < Len(data) THEN i + size ELSE Len(data))

\* ------------------------------------------------ the store: collection.add

IdsOf(docs) == {d.id : d \in docs}

HasDuplicates(ids) == \E i, j \in 1..Len(ids) : i < j /\ ids[i] = ids[j]

\* How the store may answer collection.add(args) on collection u.  add is not
\* upsert: ids repeated within one call are refused, and a call that names an id
\* the collection already holds is either refused or keeps the stored document
\* (which of the two is up to the store's version); a fault refuses it as well.
AddAnswers(u, args) ==
    IF u \notin collections THEN {"notfound"}
    ELSE (IF faults > 0 THEN {"fault"} ELSE {}) \cup
         (IF HasDuplicates(args.ids) THEN {"duplicate"}
          ELSE IF \E i \in 1..Len(args.ids) : args.ids[i] \in IdsOf(documents[u])
               THEN {"duplicate", "ok"}
               ELSE {"ok"})

\* The documents of a collection after an add the store accepted.
Added(docs, args) ==
    docs \cup {[id |-> args.ids[i], document |-> args.documents[i],
                metadata |-> args.metadatas[i]] :
               i \in {k \in 1..Len(args.ids) : args.ids[k] \notin IdsOf(docs)}}

\* ------------------------------------------------------------- addESGData

\* The method of m ends: its result, and the run counted when it was an ingestion.
Finish(m, r) ==
    /\ ret' = [ret EXCEPT ![m] = r]
    /\ op' = [op EXCEPT ![m] = "none"]
    /\ pc' = [pc EXCEPT ![m] = "idle"]

\* addESGData(csvPath) up to the first processBatch: the readiness guard, the
\* file read and parsed, the loop entered (or skipped for an empty file).
AddESGData(m, data) ==
    /\ pc[m] = "idle"
    /\ calls' = [calls EXCEPT ![m] = <<>>]
    /\ IF ~isReady[m]
       THEN /\ ret' = [ret EXCEPT ![m] = Ret("addESGData", "raised", "notready", 0, NoHits)]
            /\ UNCHANGED <<op, pc, idx, csv, runs>>
       ELSE /\ runs < MaxRuns
            /\ csv' = data
            /\ idx' = [idx EXCEPT ![m] = 0]
            /\ IF Len(data) = 0
               THEN /\ ret' = [ret EXCEPT ![m] = Ret("addESGData", "ok", "none", 0, NoHits)]
                    /\ runs' = runs + 1
                    /\ UNCHANGED <<op, pc>>
               ELSE /\ op' = [op EXCEPT ![m] = "addESGData"]
                    /\ pc' = [pc EXCEPT ![m] = "batch"]
                    /\ UNCHANGED <<ret, runs>>
    /\ UNCHANGED <<client, isReady, collection, storeVars, faults, batchSize, inits, files, chatVars, utilVars, tool>>

\* What addESGData raises when the add of the batch at startIndex fails with
\* err: processBatch lets the error of collection.add through, and the catch
\* block of addESGData logs it and throws it again as it is.
BatchError(err, startIndex) == Ret("addESGData", "raised", err, 0, NoHits)

\* One turn of the loop: await this.processBatch(data.slice(i, i + batchSize), i),
\* whose only await is collection.add; an error ends addESGData.
ProcessBatchStep(m) ==
    /\ pc[m] = "batch"
    /\ Call(m, "add")
    /\ LET args == ProcessBatch(Slice(csv, idx[m], batchSize), idx[m])
           u == collection[m]
       IN \E o \in AddAnswers(u, args) :
            /\ Spend(o)
            /\ tool' = [fn |-> "add",
                        in |-> [batch |-> Slice(csv, idx[m], batchSize), startIndex |-> idx[m]],
                        out |-> args]
            /\ IF o = "ok"
               THEN /\ documents' = [documents EXCEPT ![u] = Added(@, args)]
                    /\ idx' = [idx EXCEPT ![m] = @ + batchSize]
                    /\ IF idx[m] + batchSize < Len(csv)
                       THEN UNCHANGED <<ret, op, pc, runs>>
                       ELSE /\ Finish(m, Ret("addESGData", "ok", "none", 0, NoHits))
                            /\ runs' = runs + 1
               ELSE /\ Finish(m, BatchError(IF o = "fault" THEN "remote" ELSE o, idx[m]))
                    /\ runs' = runs + 1
                    /\ UNCHANGED <<documents, idx>>
    /\ UNCHANGED <<client, isReady, collection, collections, nextUid, inputVars, files, chatVars, utilVars>>

\* ----------------------------------------------- the store: query, get, count

\* The sequences that hold every element of S once.
Orders(S) ==
    {q \in [1..Cardinality(S) -> S] : \A i, j \in 1..Cardinality(S) : q[i] = q[j] => i = j}

\* The distances the store may report, in hundredths: 150 stands for 1.50.
Distances == {0, 50, 150}

\* A text as the sequence of its characters, where its characters matter.
Contains(text, part) ==
    \E i \in 1..(Len(text) - Len(part) + 1) : SubSeq(text, i, i + Len(part) - 1) = part

\* String.prototype.toUpperCase on the letters the names of the model use.
UpperChar(c) ==
    CASE c = "a" -> "A" [] c = "p" -> "P" [] c = "l" -> "L" [] c = "e" -> "E"
      [] c = "o" -> "O" [] c = "t" -> "T" [] c = "n" -> "N" [] c = "c" -> "C"
      [] OTHER -> c

toUpperCase(text) == [i \in 1..Len(text) |-> UpperChar(text[i])]

\* The where clause: {}, one $eq on the ticker, one { field: { op: value } }
\* clause, or the $or of such clauses.
NoFilter == [kind |-> "none", value |-> ""]
TickerEq(t) == [kind |-> "ticker", value |-> t]
Clause(field, operator, value) ==
    [kind |-> "clause", field |-> field, operator |-> operator, value |-> value]
Or(clauses) == [kind |-> "or", clauses |-> clauses]

ClauseHolds(c, meta) ==
    IF c.operator = "$eq" THEN meta[c.field] = c.value ELSE Contains(meta[c.field], c.value)

Matches(where, meta) ==
    CASE where.kind = "none" -> TRUE
      [] where.kind = "ticker" -> meta.ticker = where.value
      [] where.kind = "clause" -> ClauseHolds(where, meta)
      [] where.kind = "or" -> \E i \in 1..Len(where.clauses) : ClauseHolds(where.clauses[i], meta)

Min(a, b) == IF a < b THEN a ELSE b

\* The responses collection.query may give for the documents docs: nResults of
\* the documents the where clause admits, in some order, each with a distance.
QueryResponses(docs, where, nResults) ==
    LET admitted == {d \in docs : Matches(where, d.metadata)}
    IN UNION {
         {[documents |-> [i \in 1..Min(nResults, Len(q)) |-> q[i].document],
           metadatas |-> [i \in 1..Min(nResults, Len(q)) |-> q[i].metadata],
           distances |-> [i \in 1..Min(nResults, Len(q)) |-> ds[i]]] :
          ds \in [1..Len(q) -> Distances]} : q \in Orders(admitted)}

\* -------------------------------------------------------------- searchSimilar

\* 1 of `1 - results.distances[0][i]`, in hundredths.
One == 100

\* nResults = 10 of the options.
DefaultNResults == 10

\* Faulty variant: the similarity is clamped to [0, 1].
Hits_Clamped(results) ==
    [i \in 1..Len(results.documents) |->
        [document |-> results.documents[i],
         metadata |-> results.metadatas[i],
         distance |-> results.distances[i],
         similarity |-> IF results.distances[i] > One THEN 0 ELSE One - results.distances[i]]]

\* results.documents[0].map((doc, i) => ({document, metadata, distance, similarity}))
Hits(results) ==
    [i \in 1..Len(results.documents) |->
        [document |-> results.documents[i],
         metadata |-> results.metadatas[i],
         distance |-> results.distances[i],
         similarity |-> One - results.distances[i]]]

\* searchSimilar(query, {whereFilter}): the readiness guard, the one await of
\* collection.query, the mapping of the response; every error is rethrown.
SearchSimilar(m, where) ==
    /\ pc[m] = "idle"
    /\ IF ~isReady[m]
       THEN /\ calls' = [calls EXCEPT ![m] = <<>>]
            /\ ret' = [ret EXCEPT ![m] = Ret("searchSimilar", "raised", "notready", 0, NoHits)]
            /\ UNCHANGED <<faults, tool>>
       ELSE /\ calls' = [calls EXCEPT ![m] = <<"query">>]
            /\ \E o \in Answers :
                /\ Spend(o)
                /\ IF o = "fault"
                   THEN /\ ret' = [ret EXCEPT ![m] = Ret("searchSimilar", "raised", "remote", 0, NoHits)]
                        /\ UNCHANGED tool
                   ELSE IF collection[m] \notin collections
                   THEN /\ ret' = [ret EXCEPT ![m] = Ret("searchSimilar", "raised", "notfound", 0, NoHits)]
                        /\ UNCHANGED tool
                   ELSE \E results \in QueryResponses(documents[collection[m]], where, DefaultNResults) :
                        /\ ret' = [ret EXCEPT ![m] = Ret("searchSimilar", "ok", "none", 0, Hits(results))]
                        /\ tool' = [fn |-> "searchSimilar", where |-> where, in |-> results,
                                    out |-> Hits(results)]
    /\ UNCHANGED <<client, isReady, collection, op, pc, idx, storeVars, inputVars, files, chatVars, utilVars, runs>>

\* searchByTicker(ticker): searchSimilar with { ticker: { $eq: ticker.toUpperCase() } };
\* the tickers of the model are upper case already.
SearchByTicker(m, ticker) == SearchSimilar(m, TickerEq(ticker))

\* Faulty variant: the filter has no contains clause.
CompanyFilter_ExactOnly(companyName) ==
    Or(<< Clause("company", "$eq", companyName),
          Clause("ticker", "$eq", toUpperCase(companyName)) >>)

\* The whereFilter of searchByCompany.
CompanyFilter(companyName) ==
    Or(<< Clause("company", "$eq", companyName),
          Clause("company", "$contains", companyName),
          Clause("ticker", "$eq", toUpperCase(companyName)) >>)

\* searchByCompany(companyName): searchSimilar with the $or filter.
SearchByCompany(m, companyName) == SearchSimilar(m, CompanyFilter(companyName))

\* --------------------------------------------------------------- getESGTrends

\* The keys `${meta.company}_${meta.date}` of the trends object.
TrendKeys(docs) == {<<d.metadata.company, d.metadata.date>> : d \in docs}

\* getESGTrends(filters = {}): no readiness guard; this.collection.get is
\* called on whatever the handle is, and nothing catches.
GetESGTrends(m) ==
    /\ pc[m] = "idle"
    /\ IF collection[m] = NULL
       THEN /\ calls' = [calls EXCEPT ![m] = <<>>]
            /\ ret' = [ret EXCEPT ![m] = Ret("getESGTrends", "raised", "TypeError", 0, NoHits)]
            /\ UNCHANGED faults
       ELSE /\ calls' = [calls EXCEPT ![m] = <<"get">>]
            /\ \E o \in Answers :
                /\ Spend(o)
                /\ ret' = [ret EXCEPT ![m] =
                        IF o = "fault" THEN Ret("getESGTrends", "raised", "remote", 0, NoHits)
                        ELSE IF collection[m] \notin collections
                        THEN Ret("getESGTrends", "raised", "notfound", 0, NoHits)
                        ELSE Ret("getESGTrends", "ok", "none",
                                 Cardinality(TrendKeys(documents[collection[m]])), NoHits)]
    /\ UNCHANGED <<client, isReady, collection, op, pc, idx, storeVars, inputVars, files, chatVars, utilVars, runs, tool>>

\* ---------------------------------------------------------- getCollectionStats

\* getCollectionStats(): an { error } object is returned, never thrown, both
\* when the manager is not ready and when collection.count() fails.
GetCollectionStats(m) ==
    /\ pc[m] = "idle"
    /\ IF ~isReady[m]
       THEN /\ calls' = [calls EXCEPT ![m] = <<>>]
            /\ ret' = [ret EXCEPT ![m] = Ret("getCollectionStats", "error_object", "notready", 0, NoHits)]
            /\ UNCHANGED faults
       ELSE /\ calls' = [calls EXCEPT ![m] = <<"count">>]
            /\ \E o \in Answers :
                /\ Spend(o)
                /\ ret' = [ret EXCEPT ![m] =
                        IF o = "fault" THEN Ret("getCollectionStats", "error_object", "remote", 0, NoHits)
                        ELSE IF collection[m] \notin collections
                        THEN Ret("getCollectionStats", "error_object", "notfound", 0, NoHits)
                        ELSE Ret("getCollectionStats", "ok", "none",
                                 Cardinality(documents[collection[m]]), NoHits)]
    /\ UNCHANGED <<client, isReady, collection, op, pc, idx, storeVars, inputVars, files, chatVars, utilVars, runs, tool>>

\* ------------------------------------------- ESGAnalyzerTool: calculateTrends

\* A metadata field that is null or undefined.
Undefined == -1

\* Number.prototype.toFixed(2) of num / den: the text of the nearest hundredth
\* (of the larger magnitude on a tie), kept as its count of hundredths; the
\* text of a division by zero is "Infinity", "-Infinity" or "NaN".
Abs(x) == IF x < 0 THEN -x ELSE x

Sign(x) == IF x < 0 THEN -1 ELSE 1

\* Faulty variant: a division by zero is reported as the number 0.00.
ToFixed2_ZeroOnDivide(num, den) ==
    IF den = 0
    THEN [text |-> "number", hundredths |-> 0]
    ELSE [text |-> "number",
          hundredths |-> Sign(num) * Sign(den) *
                         ((2 * 100 * Abs(num) + Abs(den)) \div (2 * Abs(den)))]

ToFixed2(num, den) ==
    IF den = 0
    THEN [text |-> IF num > 0 THEN "Infinity" ELSE IF num < 0 THEN "-Infinity" ELSE "NaN",
          hundredths |-> 0]
    ELSE [text |-> "number",
          hundredths |-> Sign(num) * Sign(den) *
                         ((2 * 100 * Abs(num) + Abs(den)) \div (2 * Abs(den)))]

RECURSIVE SumSeq(_)
SumSeq(q) == IF q = <<>> THEN 0 ELSE Head(q) + SumSeq(Tail(q))

\* data.map(d => d[metric]).filter(v => v !== null && v !== undefined)
Available(data, metric) ==
    LET IsThere(v) == v # Undefined
    IN SelectSeq([i \in 1..Len(data) |-> data[i][metric]], IsThere)

\* Faulty variant: the change is taken relative to the last value.
TrendOf_RelativeToLast(values) ==
    LET firstValue == values[1]
        lastValue == values[Len(values)]
        change == lastValue - firstValue
    IN [current |-> lastValue,
        change |-> ToFixed2(change, 1),
        changePercent |-> ToFixed2(change * 100, lastValue),
        trend |-> IF change > 0 THEN "yukselis" ELSE IF change < 0 THEN "dusus" ELSE "sabit",
        average |-> ToFixed2(SumSeq(values), Len(values))]

\* The entry of one metric; "yukselis", "dusus" are the code's 'yükseliş', 'düşüş'.
TrendOf(values) ==
    LET firstValue == values[1]
        lastValue == values[Len(values)]
        change == lastValue - firstValue
    IN [current |-> lastValue,
        change |-> ToFixed2(change, 1),
        changePercent |-> ToFixed2(change * 100, firstValue),
        trend |-> IF change > 0 THEN "yukselis" ELSE IF change < 0 THEN "dusus" ELSE "sabit",
        average |-> ToFixed2(SumSeq(values), Len(values))]

\* calculateTrends(data, metrics): an entry for every metric with more than one
\* available value.
calculateTrends(data, metrics) ==
    [metric \in {metrics[k] : k \in {j \in 1..Len(metrics) : Len(Available(data, metrics[j])) > 1}}
        |-> TrendOf(Available(data, metric))]

CalculateTrends(data, metrics) ==
    /\ tool' = [fn |-> "calculateTrends", in |-> [data |-> data, metrics |-> metrics],
                out |-> calculateTrends(data, metrics)]
    /\ UNCHANGED <<client, isReady, collection, op, pc, calls, ret, collections, documents,
                   nextUid, faults, files, chatVars, utilVars, csv, batchSize, idx, inits, runs>>

\* ----------------------------------------------- ESGAnalyzerTool: assessRisks

\* The threshold of `latestData?.environment_score < 40`.
RiskThreshold == 40

\* Faulty variant: a score of exactly 40 is flagged too.
IsRisk_Inclusive(latestData, field) ==
    latestData # <<>> /\ latestData[1][field] # Undefined /\ latestData[1][field] <= RiskThreshold

\* latestData?.<field> < 40; latestData is <<>> for undefined, and undefined < 40
\* is false.
IsRisk(latestData, field) ==
    latestData # <<>> /\ latestData[1][field] # Undefined /\ latestData[1][field] < RiskThreshold

\* assessRisks(data); the types and levels are the code's 'Çevresel Risk',
\* 'Sosyal Risk', 'Yönetişim Riski' and 'Yüksek', 'Orta', 'Düşük'.
assessRisks(data) ==
    LET latestData == IF Len(data) > 0 THEN <<data[Len(data)]>> ELSE <<>>
        risks == (IF IsRisk(latestData, "environment_score")
                  THEN <<[type |-> "Cevresel Risk", level |-> "Yuksek"]>> ELSE <<>>)
              \o (IF IsRisk(latestData, "social_score")
                  THEN <<[type |-> "Sosyal Risk", level |-> "Yuksek"]>> ELSE <<>>)
              \o (IF IsRisk(latestData, "governance_score")
                  THEN <<[type |-> "Yonetisim Riski", level |-> "Yuksek"]>> ELSE <<>>)
    IN [riskLevel |-> IF Len(risks) > 2 THEN "Yuksek" ELSE IF Len(risks) > 0 THEN "Orta" ELSE "Dusuk",
        risks |-> risks,
        totalRiskCount |-> Len(risks)]

AssessRisks(data) ==
    /\ tool' = [fn |-> "assessRisks", in |-> [data |-> data, metrics |-> <<>>],
                out |-> assessRisks(data)]
    /\ UNCHANGED <<client, isReady, collection, op, pc, calls, ret, collections, documents,
                   nextUid, faults, files, chatVars, utilVars, csv, batchSize, idx, inits, runs>>

\* -------------------------------------------- ESGAnalyzerTool: analyzeESGData

\* calculateSectorComparison(data): the scores of the last record, `|| 0` for a
\* missing one; the metadata written by processBatch has no sector field.
calculateSectorComparison(data) ==
    LET latestData == IF Len(data) > 0 THEN <<data[Len(data)]>> ELSE <<>>
        OrZero(field) ==
            IF latestData = <<>> THEN 0
            ELSE IF latestData[1][field] = Undefined THEN 0 ELSE latestData[1][field]
    IN [sector |-> "Unknown",
        environmentScore |-> OrZero("environment_score"),
        socialScore |-> OrZero("social_score"),
        governanceScore |-> OrZero("governance_score")]

\* generateRecommendations(trends, riskAssessment) of the ESG analyzer: one
\* entry for every metric whose changePercent parses below -10, in the order of
\* the metrics, then one for every risk.
ESGGenerateRecommendations(trends, metrics, riskAssessment) ==
    LET Falling(metric) ==
            /\ metric \in DOMAIN trends
            /\ \/ trends[metric].changePercent.text = "-Infinity"
               \/ /\ trends[metric].changePercent.text = "number"
                  /\ trends[metric].changePercent.hundredths < -1000
    IN [i \in 1..Len(SelectSeq(metrics, Falling)) |->
            [area |-> SelectSeq(metrics, Falling)[i], priority |-> "Yuksek"]]
       \o [i \in 1..Len(riskAssessment.risks) |->
            [area |-> riskAssessment.risks[i].type, priority |-> riskAssessment.risks[i].level]]

\* analyzeESGData(results, metrics, timeRange): an error object for no hits,
\* else the analysis of the metadata whose record_type is 'esg_data'.
analyzeESGData(results, metrics) ==
    IF Len(results) = 0
    THEN [error |-> "Bu sirket icin ESG verisi bulunamadi"]
    ELSE LET IsESG(meta) == meta.record_type = "esg_data"
             data == SelectSeq([i \in 1..Len(results) |-> results[i].metadata], IsESG)
         IN [dataPoints |-> Len(data),
             trends |-> calculateTrends(data, metrics),
             sectorComparison |-> calculateSectorComparison(data),
             riskAssessment |-> assessRisks(data),
             recommendations |->
                ESGGenerateRecommendations(calculateTrends(data, metrics), metrics, assessRisks(data))]

AnalyzeESGData(results, metrics) ==
    /\ tool' = [fn |-> "analyzeESGData", in |-> [results |-> results, metrics |-> metrics],
                out |-> analyzeESGData(results, metrics)]
    /\ UNCHANGED <<client, isReady, collection, op, pc, calls, ret, collections, documents,
                   nextUid, faults, files, chatVars, utilVars, csv, batchSize, idx, inits, runs>>

\* ------------------------------------ MarketAnalyzerTool: analyzeSectorMetrics

\* A metadata value as JavaScript holds it: a number, undefined, a text that
\* begins with a number ("50", "50 est.") or a text that does not ("n/a").
Number(n) == [type |-> "number", num |-> n]
Missing == [type |-> "undefined", num |-> 0]
NumericText(n) == [type |-> "numeric text", num |-> n]
OtherText == [type |-> "text", num |-> 0]

NaN == [nan |-> TRUE, num |-> 0]

\* parseFloat(v): the number, the number a text begins with, NaN otherwise.
parseFloat(v) ==
    IF v.type \in {"number", "numeric text"} THEN [nan |-> FALSE, num |-> v.num] ELSE NaN

\* r.metadata[metric]: undefined for a field the metadata does not have.
Field(meta, metric) == IF metric \in DOMAIN meta THEN meta[metric] ELSE Missing

Score(r, metric) == parseFloat(Field(r.metadata, metric))

\* .slice(0, 10)
TopK == 10

\* Faulty variant: the sort is ascending.
InsertByScore_Ascending(r, sorted, metric) ==
    LET k == Cardinality({i \in 1..Len(sorted) :
                            Score(sorted[i], metric).num <= Score(r, metric).num})
    IN SubSeq(sorted, 1, k) \o <<r>> \o SubSeq(sorted, k + 1, Len(sorted))

\* .sort((a, b) => parseFloat(b...) - parseFloat(a...)): stable and descending,
\* as the insertion of each hit behind the sorted hits that do not score less.
InsertByScore(r, sorted, metric) ==
    LET k == Cardinality({i \in 1..Len(sorted) :
                            Score(sorted[i], metric).num >= Score(r, metric).num})
    IN SubSeq(sorted, 1, k) \o <<r>> \o SubSeq(sorted, k + 1, Len(sorted))

RECURSIVE SortByScore(_, _)
SortByScore(rs, metric) ==
    IF rs = <<>> THEN <<>>
    ELSE InsertByScore(rs[Len(rs)], SortByScore(SubSeq(rs, 1, Len(rs) - 1), metric), metric)

\* generateRecommendations(averageScore, metric) of the market analyzer, on the
\* mean sum / count before it is rounded: one recommendation by the bucket of
\* the mean for the environment and the social score, none for another metric.
MarketGenerateRecommendations(sum, count, metric) ==
    IF metric \in {"environment_score", "social_score"}
    THEN << [metric |-> metric,
             bucket |-> IF sum < 50 * count THEN "low"
                        ELSE IF sum < 70 * count THEN "medium" ELSE "high"] >>
    ELSE <<>>

analyzeSectorMetrics(results, metric) ==
    LET IsNumber(r) == ~Score(r, metric).nan
        numeric == SelectSeq(results, IsNumber)
        scores == [i \in 1..Len(numeric) |-> Score(numeric[i], metric).num]
        sorted == SortByScore(numeric, metric)
        sum == IF Len(scores) > 0 THEN SumSeq(scores) ELSE 0
        count == IF Len(scores) > 0 THEN Len(scores) ELSE 1
    IN [averageScore |-> ToFixed2(sum, count),
        topPerformers |-> [i \in 1..Min(TopK, Len(sorted)) |->
                             [company |-> Field(sorted[i].metadata, "company_name"),
                              score |-> Score(sorted[i], metric).num,
                              sector |-> Field(sorted[i].metadata, "sector")]],
        recommendations |-> MarketGenerateRecommendations(sum, count, metric),
        totalCompanies |-> Len(scores)]

AnalyzeSectorMetrics(results, metric) ==
    /\ tool' = [fn |-> "analyzeSectorMetrics", in |-> [results |-> results, metric |-> metric],
                out |-> analyzeSectorMetrics(results, metric)]
    /\ UNCHANGED <<client, isReady, collection, op, pc, calls, ret, collections, documents,
                   nextUid, faults, files, chatVars, utilVars, csv, batchSize, idx, inits, runs>>

\* ------------------------------------------------------- the agent tools

\* nResults of the three tools' searches.
RagNResults == 5
SectorNResults == 20
CompanyNResults == 50

\* A field of the request that is absent reads as undefined; in a template
\* string or a filter it is the text below.
UndefinedText == "undefined"

\* How a searchSimilar(query, {nResults, whereFilter}) called by a tool may end:
\* what it returns or throws, the remote calls it made and the store's answer.
\* A filter with an undefined value is one the store may refuse.
SearchOutcomes(m, where, nResults) ==
    LET Thrown(err, made, answer) ==
            [status |-> "raised", error |-> err, hits |-> NoHits, calls |-> made, answer |-> answer]
    IN IF ~isReady[m]
       THEN {Thrown("notready", <<>>, "ok")}
       ELSE {Thrown("remote", <<"query">>, o) : o \in Answers \ {"ok"}}
            \cup (IF where.kind = "clause" /\ where.value = UndefinedText
                  THEN {Thrown("invalid", <<"query">>, "ok")} ELSE {})
            \cup (IF collection[m] \notin collections
                  THEN {Thrown("notfound", <<"query">>, "ok")}
                  ELSE {[status |-> "ok", error |-> "none", hits |-> Hits(results),
                         calls |-> <<"query">>, answer |-> "ok"] :
                        results \in QueryResponses(documents[collection[m]], where, nResults)})

\* The tool answers without calling the manager.
Answered(fn, input, out) ==
    /\ tool' = [fn |-> fn, in |-> input, calls |-> <<>>, out |-> out]
    /\ UNCHANGED <<faults, ret, calls>>

\* The tool answers after its searchSimilar ended as r.
Searched_By(m, fn, input, r, out) ==
    /\ Spend(r.answer)
    /\ ret' = [ret EXCEPT ![m] = Ret("searchSimilar", r.status, r.error, 0, r.hits)]
    /\ calls' = [calls EXCEPT ![m] = r.calls]
    /\ tool' = [fn |-> fn, in |-> input, calls |-> r.calls, out |-> out]

ErrorResult(text) == [kind |-> "error", error |-> text]

\* RAGRetrieverTool.call(input): input is a text that is not JSON, a JSON null,
\* or an object whose query is "" when absent.  The destructuring of null is
\* outside both try blocks.
RagCall(m, input) ==
    /\ pc[m] = "idle"
    /\ IF input.kind = "unparseable"
       THEN Answered("rag_retriever", input, ErrorResult("Input JSON formatinda olmali."))
       ELSE IF input.kind = "null"
       THEN Answered("rag_retriever", input, [kind |-> "raised", error |-> "TypeError"])
       ELSE IF input.query = ""
       THEN Answered("rag_retriever", input, ErrorResult("Query alani zorunludur."))
       ELSE \E r \in SearchOutcomes(m, NoFilter, RagNResults) :
                Searched_By(m, "rag_retriever", input, r,
                    IF r.status = "ok" THEN [kind |-> "success", results |-> r.hits]
                    ELSE ErrorResult("ChromaDB arama hatasi"))
    /\ UNCHANGED <<client, isReady, collection, op, pc, idx, storeVars, inputVars, files, chatVars, utilVars, runs>>

\* The whereFilter of searchBySector(sector, options): `...options` is spread
\* first and whereFilter is set after it, so the whereFilter of the options
\* (the tool's { date: { $contains: timeRange } }) is replaced.
SectorFilter(sector) == Clause("peer_group", "$eq", sector)

\* The hits with their scores as JavaScript values.
JsHits(hits) ==
    [i \in 1..Len(hits) |->
        [metadata |->
            [f \in {"environment_score", "social_score", "governance_score"} |->
                IF hits[i].metadata[f] = Undefined THEN Missing ELSE Number(hits[i].metadata[f])]]]

\* MarketAnalyzerTool._call(input): neither sector nor metric is looked at
\* before searchBySector is called; every error is turned into an error result.
MarketCall(m, input) ==
    /\ pc[m] = "idle"
    /\ IF input.kind = "unparseable"
       THEN Answered("market_analyzer", input, ErrorResult("Pazar analizi hatasi"))
       ELSE \E r \in SearchOutcomes(m, SectorFilter(IF input.sector = "" THEN UndefinedText
                                                     ELSE input.sector), SectorNResults) :
                Searched_By(m, "market_analyzer", input, r,
                    IF r.status = "ok"
                    THEN [kind |-> "analysis",
                          analysis |-> analyzeSectorMetrics(JsHits(r.hits), input.metric)]
                    ELSE ErrorResult("Pazar analizi hatasi"))
    /\ UNCHANGED <<client, isReady, collection, op, pc, idx, storeVars, inputVars, files, chatVars, utilVars, runs>>

\* ESGAnalyzerTool._call(input): company is <<>> when absent, and then
\* companyName.toUpperCase() throws while searchByCompany builds its filter.
ESGCall(m, input) ==
    /\ pc[m] = "idle"
    /\ IF input.kind = "unparseable" \/ input.company = <<>>
       THEN Answered("esg_analyzer", input, ErrorResult("ESG analiz hatasi"))
       ELSE \E r \in SearchOutcomes(m, CompanyFilter(input.company), CompanyNResults) :
                Searched_By(m, "esg_analyzer", input, r,
                    IF r.status = "ok"
                    THEN [kind |-> "analysis", analysis |-> analyzeESGData(r.hits, input.metrics)]
                    ELSE ErrorResult("ESG analiz hatasi"))
    /\ UNCHANGED <<client, isReady, collection, op, pc, idx, storeVars, inputVars, files, chatVars, utilVars, runs>>

\* --------------------------------------------------------- the chat routes

\* The HTTP clients; each has one request in progress at a time.
Clients == {"c1", "c2"}

\* The ids uuidv4() gives.  A request may also carry no sessionId at all, or
\* one that no /session call gave out (the README's "user123").
SessionIds == 1..MaxSessions
AbsentId == 0
ForeignId == -1

coreVars == <<client, isReady, collection, op, pc, calls, ret, collections, documents,
              nextUid, faults, files, csv, batchSize, idx, inits, runs, tool>>

NoRequest == [pc |-> "idle", message |-> "", sessionId |-> AbsentId]

Response(route, message, asked, status, success, sessionId) ==
    [route |-> route, message |-> message, asked |-> asked,
     status |-> status, success |-> success, sessionId |-> sessionId]

NoReply == Response("none", "", AbsentId, 0, FALSE, AbsentId)

\* The two messages /message pushes after a transcript of `held` messages;
\* `id` is the uuidv4() of the message, kept as its serial number.
Exchange(held, message) ==
    << [id |-> held + 1, type |-> "user", content |-> message],
       [id |-> held + 2, type |-> "assistant", content |-> "answer"] >>

\* The transcript of n exchanges of the message "hi".
Exchanges(n) ==
    [k \in 1..(2 * n) |->
        IF k % 2 = 1 THEN Exchange(k - 1, "hi")[1] ELSE Exchange(k - 2, "hi")[2]]

\* The messages a session held when the behaviour began.
Started(id) ==
    IF Len(transcripts[id]) >= 2 * LongExchanges THEN 2 * LongExchanges ELSE 0

\* The module as loaded: an empty Map, no agent in app.locals yet.
NoChat ==
    /\ sessions = {}
    /\ transcripts = [id \in SessionIds |-> <<>>]
    /\ minted = {}
    /\ agentReady = FALSE
    /\ chat = [c \in Clients |-> NoRequest]
    /\ reply = [c \in Clients |-> NoReply]

\* The server has initialized the agent and put it into app.locals.
AgentReady ==
    /\ ~agentReady
    /\ agentReady' = TRUE
    /\ UNCHANGED <<coreVars, utilVars, sessions, transcripts, minted, chat, reply>>

\* POST /session
PostSession(c) ==
    /\ chat[c].pc = "idle"
    /\ \E id \in SessionIds \ minted :
        /\ minted' = minted \cup {id}
        /\ sessions' = sessions \cup {id}
        /\ reply' = [reply EXCEPT ![c] = Response("session", "", AbsentId, 200, TRUE, id)]
    /\ UNCHANGED <<coreVars, utilVars, transcripts, agentReady, chat>>

\* What POST /message does with a sessionId the Map does not hold:
\* `sessionId = uuidv4()` assigns to the const of the destructuring and throws
\* a TypeError, which the catch block answers with 500.
OnNoSession(c, message, sessionId) ==
    /\ reply' = [reply EXCEPT ![c] = Response("message", message, sessionId, 500, FALSE, AbsentId)]
    /\ UNCHANGED <<sessions, transcripts, minted, chat>>

\* POST /message up to its await: the message check, the session lookup, the
\* agent check.
PostMessage(c, message, sessionId) ==
    /\ chat[c].pc = "idle"
    /\ sessionId \in SessionIds =>
            Len(transcripts[sessionId]) - Started(sessionId) < 2 * MaxExchanges
    /\ IF message = ""
       THEN /\ reply' = [reply EXCEPT ![c] =
                            Response("message", message, sessionId, 400, FALSE, AbsentId)]
            /\ UNCHANGED <<sessions, transcripts, minted, chat>>
       ELSE IF sessionId \notin sessions
       THEN OnNoSession(c, message, sessionId)
       ELSE IF ~agentReady
       THEN /\ reply' = [reply EXCEPT ![c] =
                            Response("message", message, sessionId, 503, FALSE, AbsentId)]
            /\ UNCHANGED <<sessions, transcripts, minted, chat>>
       ELSE /\ chat' = [chat EXCEPT ![c] =
                            [pc |-> "await", message |-> message, sessionId |-> sessionId]]
            /\ UNCHANGED <<sessions, transcripts, minted, reply>>
    /\ UNCHANGED <<coreVars, utilVars, agentReady>>

\* await esgAgent.processMessage(...) returns or throws; on return the two
\* messages are pushed to the session object and the object is set in the Map.
ProcessMessage(c) ==
    /\ chat[c].pc = "await"
    /\ LET id == chat[c].sessionId
           message == chat[c].message
       IN \/ /\ transcripts' = [transcripts EXCEPT ![id] = @ \o Exchange(Len(@), message)]
             /\ sessions' = sessions \cup {id}
             /\ reply' = [reply EXCEPT ![c] = Response("message", message, id, 200, TRUE, id)]
          \/ /\ reply' = [reply EXCEPT ![c] = Response("message", message, id, 500, FALSE, AbsentId)]
             /\ UNCHANGED <<sessions, transcripts>>
    /\ chat' = [chat EXCEPT ![c] = NoRequest]
    /\ UNCHANGED <<coreVars, utilVars, minted, agentReady>>

\* DELETE /session/:sessionId
DeleteSession(c, sessionId) ==
    /\ chat[c].pc = "idle"
    /\ sessions' = sessions \ {sessionId}
    /\ reply' = [reply EXCEPT ![c] =
                    Response("delete", "", sessionId, 200, sessionId \in sessions, sessionId)]
    /\ UNCHANGED <<coreVars, utilVars, transcripts, minted, agentReady, chat>>

HistoryLimit == 50

\* Faulty variant: the first n messages instead of the last n.
Slice_FirstN(q, n) == IF Len(q) <= n THEN q ELSE SubSeq(q, 1, n)

\* q.slice(-n)
SliceLast(q, n) == IF Len(q) <= n THEN q ELSE SubSeq(q, Len(q) - n + 1, Len(q))

\* GET /session/:sessionId/history
GetHistory(c, sessionId) ==
    /\ chat[c].pc = "idle"
    /\ reply' = [reply EXCEPT ![c] =
            IF sessionId \notin sessions
            THEN Response("history", "", sessionId, 404, FALSE, AbsentId)
            ELSE Response("history", "", sessionId, 200, TRUE, sessionId) @@
                 [messageCount |-> Len(transcripts[sessionId]),
                  messages |-> SliceLast(transcripts[sessionId], HistoryLimit)]]
    /\ UNCHANGED <<coreVars, utilVars, sessions, transcripts, minted, agentReady, chat>>

\* ------------------------------------------------------------- chunkText

\* A text of n characters, each known by its place.
Text(n) == [i \in 1..n |-> i]

\* text.slice(start, end): a negative start counts from the end of the text.
TextSlice(text, start, end) ==
    LET from == IF start >= 0 THEN start
                ELSE IF Len(text) + start > 0 THEN Len(text) + start ELSE 0
    IN SubSeq(text, from + 1, end)

\* chunkText(text, chunkSize, overlap) up to its loop.
ChunkText(text, chunkSize, overlap) ==
    /\ chunker = NoChunker
    /\ chunker' = [pc |-> "loop", text |-> text, chunkSize |-> chunkSize,
                   overlap |-> overlap, start |-> 0, chunks |-> <<>>]
    /\ UNCHANGED <<coreVars, chatVars>>

\* One turn of `while (start < text.length)`.
ChunkLoop ==
    /\ chunker.pc = "loop"
    /\ chunker.start < Len(chunker.text)
    /\ Len(chunker.chunks) < MaxChunks
    /\ LET end == Min(chunker.start + chunker.chunkSize, Len(chunker.text))
       IN chunker' = [chunker EXCEPT
                        !.chunks = Append(@, TextSlice(chunker.text, chunker.start, end)),
                        !.start = end - chunker.overlap]
    /\ UNCHANGED <<coreVars, chatVars>>

\* The loop condition fails: return chunks.
ChunkReturn ==
    /\ chunker.pc = "loop"
    /\ ~(chunker.start < Len(chunker.text))
    /\ chunker' = [chunker EXCEPT !.pc = "done"]
    /\ UNCHANGED <<coreVars, chatVars>>

\* ------------------------------------------------------ the specifications

\* Every manager as its constructor leaves it.
Constructed ==
    /\ client = [m \in Managers |-> FALSE]
    /\ isReady = [m \in Managers |-> FALSE]
    /\ collection = [m \in Managers |-> NULL]
    /\ op = [m \in Managers |-> "none"]
    /\ pc = [m \in Managers |-> "idle"]
    /\ calls = [m \in Managers |-> <<>>]
    /\ ret = [m \in Managers |-> NoRet]
    /\ idx = [m \in Managers |-> 0]
    /\ inits = [m \in Managers |-> 0]

\* The documents an earlier run left in the collection.
EarlierRun ==
    Added({}, ProcessBatch(<<[Company |-> "Acme", Ticker |-> "A", Date |-> 2020,
                              total_esg_score |-> 50]>>, 0))

\* The store holds no collection of the configured name, or one an earlier run
\* or another process made, empty or not.
StoreAsFound ==
    /\ collections \in {{}, {1}}
    /\ documents \in {[u \in Uids |-> {}]} \cup
                     (IF collections = {} THEN {}
                      ELSE {[u \in Uids |-> IF u = 1 THEN EarlierRun ELSE {}]})
    /\ nextUid = IF collections = {} THEN 1 ELSE 2

\* The process that runs alone under Spec.
Solo == "p1"

Init ==
    /\ Constructed
    /\ StoreAsFound
    /\ faults = MaxFaults
    /\ files = {<<>>, <<[Company |-> "Acme", Ticker |-> "A", Date |-> 2020, total_esg_score |-> 60]>>}
    /\ csv = <<>>
    /\ batchSize = 1
    /\ runs = 0
    /\ tool = NoTool
    /\ NoChat
    /\ chunker = NoChunker

\* One process and every operation of its manager, over a store that may fail.
Next ==
    \/ Initialize(Solo)
    \/ EnsureList(Solo)
    \/ EnsureGet(Solo)
    \/ EnsureCreate(Solo)
    \/ ResetCollection(Solo)
    \/ ClearCollection(Solo)
    \/ Delete(Solo)
    \/ \E data \in files : AddESGData(Solo, data)
    \/ ProcessBatchStep(Solo)
    \/ SearchSimilar(Solo, NoFilter)
    \/ \E t \in Tickers \ {""} : SearchByTicker(Solo, t)
    \/ GetESGTrends(Solo)
    \/ GetCollectionStats(Solo)

Spec == Init /\ [][Next]_vars

\* Two processes that only initialize, over a store that answers every call.
InitInitialize ==
    /\ Constructed
    /\ StoreAsFound
    /\ faults = 0
    /\ files = {<<>>}
    /\ csv = <<>>
    /\ batchSize = 1
    /\ runs = 0
    /\ tool = NoTool
    /\ NoChat
    /\ chunker = NoChunker

NextInitialize ==
    \E m \in Managers :
        \/ Initialize(m)
        \/ EnsureList(m)
        \/ EnsureGet(m)
        \/ EnsureCreate(m)

SpecInitialize == InitInitialize /\ [][NextInitialize]_vars

\* Two processes that only initialize, over a store that may fail.
InitEnsure ==
    /\ Constructed
    /\ StoreAsFound
    /\ faults = MaxFaults
    /\ files = {<<>>}
    /\ csv = <<>>
    /\ batchSize = 1
    /\ runs = 0
    /\ tool = NoTool
    /\ NoChat
    /\ chunker = NoChunker

SpecEnsure == InitEnsure /\ [][NextInitialize]_vars

\* One ready manager that only ingests, over every CSV content and batch size
\* of the bounds, into a collection that starts empty.
InitIngest ==
    /\ client = [m \in Managers |-> m = Solo]
    /\ isReady = [m \in Managers |-> m = Solo]
    /\ collection = [m \in Managers |-> IF m = Solo THEN 1 ELSE NULL]
    /\ op = [m \in Managers |-> "none"]
    /\ pc = [m \in Managers |-> "idle"]
    /\ calls = [m \in Managers |-> <<>>]
    /\ ret = [m \in Managers |-> NoRet]
    /\ idx = [m \in Managers |-> 0]
    /\ inits = [m \in Managers |-> IF m = Solo THEN 1 ELSE 0]
    /\ collections = {1}
    /\ documents = [u \in Uids |-> {}]
    /\ nextUid = 2
    /\ faults = 0
    /\ files = SeqsUpTo(Records, MaxRecords)
    /\ csv = <<>>
    /\ batchSize \in 1..MaxBatch
    /\ runs = 0
    /\ tool = NoTool
    /\ NoChat
    /\ chunker = NoChunker

NextIngest ==
    \/ \E data \in files : AddESGData(Solo, data)
    \/ ProcessBatchStep(Solo)

SpecIngest == InitIngest /\ [][NextIngest]_vars

\* The scores of the metadata the analyzer is tried on.
TrendScores == {Undefined, 0, 32, 33, 50, 60}
RiskScores == {Undefined, 39, 40}

TrendData ==
    SeqsUpTo([environment_score : TrendScores, social_score : {Undefined, 50},
              governance_score : {50}], MaxTrendData)

RiskData ==
    SeqsUpTo([environment_score : RiskScores, social_score : RiskScores,
              governance_score : RiskScores], MaxRiskData)

MetricLists ==
    {<<"environment_score">>, <<"environment_score", "social_score">>}

\* The analyzer's pure functions on every input of the bounds.
InitAnalyzer ==
    /\ Constructed
    /\ collections = {}
    /\ documents = [u \in Uids |-> {}]
    /\ nextUid = 1
    /\ faults = 0
    /\ files = {<<>>}
    /\ csv = <<>>
    /\ batchSize = 1
    /\ runs = 0
    /\ tool = NoTool
    /\ NoChat
    /\ chunker = NoChunker

\* The functions keep no state: one call a behaviour shows every result.
NextAnalyzer ==
    \/ \E data \in TrendData, metrics \in MetricLists :
        tool = NoTool /\ CalculateTrends(data, metrics)
    \/ \E data \in RiskData :
        tool = NoTool /\ AssessRisks(data)

SpecAnalyzer == InitAnalyzer /\ [][NextAnalyzer]_vars

\* The documents of the collection searchSimilar is tried on.
SearchCorpus ==
    Added({}, ProcessBatch(
        << [Company |-> "Acme", Ticker |-> "A", Date |-> 2020, total_esg_score |-> 50],
           [Company |-> "Acme", Ticker |-> "", Date |-> 2020, total_esg_score |-> 60],
           [Company |-> "Acme", Ticker |-> "A", Date |-> 0, total_esg_score |-> 60] >>, 0))

\* One ready manager that only searches a collection of three documents.
InitSearch ==
    /\ client = [m \in Managers |-> m = Solo]
    /\ isReady = [m \in Managers |-> m = Solo]
    /\ collection = [m \in Managers |-> IF m = Solo THEN 1 ELSE NULL]
    /\ op = [m \in Managers |-> "none"]
    /\ pc = [m \in Managers |-> "idle"]
    /\ calls = [m \in Managers |-> <<>>]
    /\ ret = [m \in Managers |-> NoRet]
    /\ idx = [m \in Managers |-> 0]
    /\ inits = [m \in Managers |-> IF m = Solo THEN 1 ELSE 0]
    /\ collections = {1}
    /\ documents = [u \in Uids |-> IF u = 1 THEN SearchCorpus ELSE {}]
    /\ nextUid = 2
    /\ faults = 0
    /\ files = {<<>>}
    /\ csv = <<>>
    /\ batchSize = 1
    /\ runs = 0
    /\ tool = NoTool
    /\ NoChat
    /\ chunker = NoChunker

NextSearch ==
    \/ SearchSimilar(Solo, NoFilter)
    \/ \E t \in Tickers \ {""} : SearchByTicker(Solo, t)

SpecSearch == InitSearch /\ [][NextSearch]_vars

\* The values the metric of a hit may hold.
MetricValues == {Missing, OtherText, NumericText(50), Number(40), Number(50), Number(90)}

MarketHit(company, v) ==
    [metadata |-> [company_name |-> company, sector |-> "Technology", environment_score |-> v]]

MarketResults ==
    SeqsUpTo({MarketHit(c, v) : c \in {"Acme", "Bolt"}, v \in MetricValues}, MaxHits)
    \cup [1..MaxLongHits -> {MarketHit("Acme", Number(40)), MarketHit("Acme", Number(90))}]

ESGResults ==
    SeqsUpTo({[metadata |-> meta] :
                meta \in [record_type : {"esg_data", "other"},
                          environment_score : {Undefined, 39, 50},
                          social_score : {50}, governance_score : {50}]}, MaxESGHits)

\* The aggregators on every hit list of the bounds.
NextAggregate ==
    \/ \E results \in MarketResults, metric \in {"environment_score", "social_score"} :
        tool = NoTool /\ AnalyzeSectorMetrics(results, metric)
    \/ \E results \in ESGResults :
        tool = NoTool /\ AnalyzeESGData(results, <<"environment_score">>)

SpecAggregate == InitAnalyzer /\ [][NextAggregate]_vars

\* The names of the tools' corpus, character by character.
Apple == <<"A", "p", "p", "l", "e">>
AppleInc == <<"A", "p", "p", "l", "e", " ", "I", "n", "c", ".">>
AAPL == <<"A", "A", "P", "L">>
Bolt == <<"B", "o", "l", "t">>
BOLT == <<"B", "O", "L", "T">>

ToolDocument(id, company, ticker, peer_group, date, environment_score) ==
    [id |-> id, document |-> id,
     metadata |-> [company |-> company, ticker |-> ticker, peer_group |-> peer_group,
                   date |-> date, environment_score |-> environment_score,
                   social_score |-> 50, governance_score |-> 50, record_type |-> "esg_data"]]

\* The documents of the collection the tools are tried on.
ToolCorpus ==
    { ToolDocument(1, AppleInc, AAPL, "Technology", 2023, 39),
      ToolDocument(2, Apple, <<>>, "Technology", 2022, 50),
      ToolDocument(3, Bolt, BOLT, "Energy", 2023, 50) }

RagInputs == [kind : {"unparseable", "null", "object"}, query : {"", "esg"}]

MarketInputs ==
    [kind : {"unparseable", "object"}, sector : {"", "Technology"},
     metric : {"", "environment_score"}, timeRange : {"2023"}]

ESGInputs ==
    [kind : {"unparseable", "object"}, company : {<<>>, Apple},
     metrics : {<<"environment_score">>}]

\* One manager, ready or not yet initialized, over a store that may fail.
InitTools ==
    /\ client = [m \in Managers |-> m = Solo]
    /\ \E ready \in BOOLEAN :
        /\ isReady = [m \in Managers |-> m = Solo /\ ready]
        /\ collection = [m \in Managers |-> IF m = Solo /\ ready THEN 1 ELSE NULL]
        /\ inits = [m \in Managers |-> IF m = Solo /\ ready THEN 1 ELSE 0]
    /\ op = [m \in Managers |-> "none"]
    /\ pc = [m \in Managers |-> "idle"]
    /\ calls = [m \in Managers |-> <<>>]
    /\ ret = [m \in Managers |-> NoRet]
    /\ idx = [m \in Managers |-> 0]
    /\ collections = {1}
    /\ documents = [u \in Uids |-> IF u = 1 THEN ToolCorpus ELSE {}]
    /\ nextUid = 2
    /\ faults \in {0, MaxFaults}
    /\ files = {<<>>}
    /\ csv = <<>>
    /\ batchSize = 1
    /\ runs = 0
    /\ tool = NoTool
    /\ NoChat
    /\ chunker = NoChunker

\* One request a behaviour: the tools keep no state of their own.
NextTools ==
    \/ \E input \in RagInputs : tool = NoTool /\ RagCall(Solo, input)
    \/ \E input \in MarketInputs : tool = NoTool /\ MarketCall(Solo, input)
    \/ \E input \in ESGInputs : tool = NoTool /\ ESGCall(Solo, input)
    \/ \E name \in {Apple, <<"a", "a", "p", "l">>, Bolt} :
        tool = NoTool /\ SearchByCompany(Solo, name)

SpecTools == InitTools /\ [][NextTools]_vars

\* The chat routes, requests of two clients interleaved.
NextChat ==
    \/ AgentReady
    \/ \E c \in Clients : PostSession(c)
    \/ \E c \in Clients, message \in {"", "hi"}, sessionId \in SessionIds \cup {AbsentId, ForeignId} :
        PostMessage(c, message, sessionId)
    \/ \E c \in Clients : ProcessMessage(c)
    \/ \E c \in Clients, sessionId \in SessionIds : DeleteSession(c, sessionId)

SpecChat == InitAnalyzer /\ [][NextChat]_vars

\* The chat routes with /history, from the module as loaded or from a server
\* whose first session has had LongExchanges exchanges.
InitTranscript ==
    /\ Constructed
    /\ collections = {}
    /\ documents = [u \in Uids |-> {}]
    /\ nextUid = 1
    /\ faults = 0
    /\ files = {<<>>}
    /\ csv = <<>>
    /\ batchSize = 1
    /\ runs = 0
    /\ tool = NoTool
    /\ chunker = NoChunker
    /\ \/ NoChat
       \/ /\ sessions = {1}
          /\ minted = {1}
          /\ transcripts = [id \in SessionIds |-> IF id = 1 THEN Exchanges(LongExchanges) ELSE <<>>]
          /\ agentReady = TRUE
          /\ chat = [c \in Clients |-> NoRequest]
          /\ reply = [c \in Clients |-> NoReply]

NextTranscript ==
    \/ NextChat
    \/ \E c \in Clients, sessionId \in SessionIds : GetHistory(c, sessionId)

SpecTranscript == InitTranscript /\ [][NextTranscript]_vars

\* One chunkText call on every text, chunk size and overlap of the bounds.
NextChunk ==
    \/ \E n \in 0..MaxText, chunkSize \in 1..MaxChunkSize, overlap \in 0..(MaxChunkSize - 1) :
        overlap < chunkSize /\ ChunkText(Text(n), chunkSize, overlap)
    \/ ChunkLoop
    \/ ChunkReturn

SpecChunk == InitAnalyzer /\ [][NextChunk]_vars

\* ================================================================ claims

\* The collection after all of data went to an empty collection in one add.
OneBatch(data) ==
    LET args == ProcessBatch(data, 0)
    IN IF HasDuplicates(args.ids) THEN {} ELSE Added({}, args)

RunEnded(m) == op[m] = "none" /\ ret[m].op = "addESGData" /\ runs >= 1

\* C1: when a run has ingested two records of the same Ticker and the same
\* Date, the run did not fail and the collection holds exactly one document of
\* their id, which is the later record's (the second write replaced the first).
C1_ReingestOverwrites ==
    RunEnded(Solo) =>
        \A i, j \in 1..Len(csv) :
            (i < j /\ csv[i].Ticker = csv[j].Ticker /\ csv[i].Date = csv[j].Date
                   /\ csv[j].Ticker # "" /\ csv[j].Date # 0
                   /\ ~ \E k \in (j + 1)..Len(csv) : DocId(csv[k], k - 1) = DocId(csv[j], j - 1))
            => /\ ret[Solo].status = "ok"
               /\ Cardinality({d \in documents[1] : d.id = DocId(csv[j], j - 1)}) = 1
               /\ \A d \in documents[1] :
                    d.id = DocId(csv[j], j - 1) => d.metadata = Metadata(csv[j])

\* C3: the first run into the empty collection, whatever its batch size, ends
\* with the document ids that one add of the whole list ends with.
C3_BatchSizeIrrelevant ==
    (RunEnded(Solo) /\ runs = 1) => IdsOf(documents[1]) = IdsOf(OneBatch(csv))

Completes(m, o) == op[m] = o /\ op'[m] = "none"

Listed(m) == calls'[m] = <<"listCollections", "getCollection">>

\* C2: every initialize() that finds the collection listed returns without
\* raising, READY, with a handle to the collection the store holds; a repeated
\* initialize() of a READY manager ends with the handle it had.
C2_InitializeTwice ==
    [][\A m \in Managers :
        (Completes(m, "initialize") /\ Listed(m)) =>
            /\ ret'[m].status = "ok"
            /\ isReady'[m]
            /\ collection'[m] \in collections'
            /\ (isReady[m] => collection'[m] = collection[m])]_vars

\* A second initialize() of a manager has returned from the attach path.
C2_Witness ==
    \E m \in Managers :
        /\ inits[m] = 2 /\ op[m] = "none" /\ isReady[m]
        /\ ret[m] = Ret("initialize", "ok", "none", 0, NoHits)
        /\ calls[m] = <<"listCollections", "getCollection">>

\* C4: with processes that initialize concurrently and nothing deleting, no
\* initialize() raises, every manager whose initialize() returned is READY,
\* all of them hold a handle to the one collection the store holds under the name.
C4_ConcurrentInitialize ==
    /\ \A m \in Managers : ret[m].op = "initialize" => ret[m].status = "ok"
    /\ \A m \in Managers :
        (inits[m] >= 1 /\ op[m] = "none") => (isReady[m] /\ collections = {collection[m]})
    /\ Cardinality(collections) <= 1

\* Both processes listed before either created; the loser of the create fell
\* back to getCollection and both are READY.
C4_Witness ==
    /\ calls["p1"] = <<"listCollections", "createCollection">>
    /\ calls["p2"] = <<"listCollections", "createCollection", "getCollection">>
    /\ \A m \in Managers : op[m] = "none" /\ isReady[m]
    /\ collection["p1"] = collection["p2"]

\* C5: whenever resetCollection() or clearCollection() of a READY manager
\* returns without raising, its handle names a collection the store holds and
\* that collection has no documents.
C5_ResetLeavesEmpty ==
    [][\A m \in Managers :
        ((Completes(m, "resetCollection") \/ Completes(m, "clearCollection"))
            /\ isReady[m] /\ ret'[m].status = "ok") =>
            /\ collection'[m] \in collections'
            /\ documents'[collection'[m]] = {}]_vars

DataOps == {"addESGData", "searchSimilar", "getESGTrends", "getCollectionStats"}

\* C6: a reading or writing operation invoked on a manager whose initialize()
\* has not succeeded raises the not-ready error and issues no remote call.
C6_NotReadyRaises ==
    [][\A m \in Managers :
        (~isReady[m] /\ pc[m] = "idle" /\ ret'[m] # ret[m] /\ ret'[m].op \in DataOps) =>
            /\ ret'[m].status = "raised"
            /\ ret'[m].error = "notready"
            /\ calls'[m] = <<>>]_vars

Searched == tool.fn = "searchSimilar"

Ascending(ds) == \A i, j \in 1..Len(ds) : i < j => ds[i] <= ds[j]

\* C7: a search result has one hit for every result of the store, hit i carries
\* the store's i-th document, metadata and distance, its similarity is 1 minus
\* that distance (100 hundredths minus the distance, below 0 when the distance
\* is above 1), and the similarities do not increase when the store's distances
\* ascend.
C7_HitsMirrorStore ==
    Searched =>
        /\ Len(tool.out) = Len(tool.in.documents)
        /\ \A i \in 1..Len(tool.out) :
            /\ tool.out[i].document = tool.in.documents[i]
            /\ tool.out[i].metadata = tool.in.metadatas[i]
            /\ tool.out[i].distance = tool.in.distances[i]
            /\ tool.out[i].similarity + tool.in.distances[i] = 100
        /\ Ascending(tool.in.distances) =>
            \A i, j \in 1..Len(tool.out) :
                i < j => tool.out[i].similarity >= tool.out[j].similarity

\* Three hits in ascending distance, the last one farther than 1.
C7_Witness ==
    /\ Searched
    /\ tool.in.distances = <<0, 50, 150>>
    /\ tool.out[3].similarity = -50
    /\ ret[Solo].hits = tool.out

Trended == tool.fn = "calculateTrends"

\* h hundredths is a nearest hundredth of num / den.
Nearest(h, num, den) == 2 * Abs(h * den - 100 * num) <= Abs(den)

TrendSign(change) == IF change > 0 THEN "yukselis" ELSE IF change < 0 THEN "dusus" ELSE "sabit"

\* C8: for every requested metric with two or more available values the entry
\* has current = the last value, change = last - first, changePercent = the
\* nearest hundredth of change / first * 100 (first not 0), average = the
\* nearest hundredth of the mean, and the trend by the sign of the change;
\* [50, 60] gives 10.00, 20.00, rising and [60, 50] gives -16.67, falling.
C8_TrendEntries ==
    Trended =>
        \A k \in 1..Len(tool.in.metrics) :
            LET metric == tool.in.metrics[k]
                values == Available(tool.in.data, metric)
                first == values[1]
                last == values[Len(values)]
            IN Len(values) >= 2 =>
                /\ metric \in DOMAIN tool.out
                /\ LET e == tool.out[metric]
                   IN /\ e.current = last
                      /\ e.change = [text |-> "number", hundredths |-> 100 * (last - first)]
                      /\ first # 0 =>
                            /\ e.changePercent.text = "number"
                            /\ Nearest(e.changePercent.hundredths, 100 * (last - first), first)
                      /\ e.average.text = "number"
                      /\ Nearest(e.average.hundredths, SumSeq(values), Len(values))
                      /\ e.trend = TrendSign(last - first)
                      /\ values = <<50, 60>> =>
                            e.changePercent.hundredths = 2000 /\ e.trend = "yukselis"
                      /\ values = <<60, 50>> =>
                            e.changePercent.hundredths = -1667 /\ e.trend = "dusus"

\* The values 60, 50 of a metric, a missing value between them.
C8_Witness ==
    /\ Trended
    /\ Len(tool.in.data) = 3
    /\ Available(tool.in.data, "environment_score") = <<60, 50>>
    /\ tool.out["environment_score"].changePercent = [text |-> "number", hundredths |-> -1667]
    /\ tool.out["environment_score"].average = [text |-> "number", hundredths |-> 5500]

FirstIsZero(metric) ==
    /\ Len(Available(tool.in.data, metric)) >= 2
    /\ Available(tool.in.data, metric)[1] = 0

Assessed == tool.fn = "assessRisks"

Pillars == {"environment_score", "social_score", "governance_score"}

RiskType(pillar) ==
    IF pillar = "environment_score" THEN "Cevresel Risk"
    ELSE IF pillar = "social_score" THEN "Sosyal Risk" ELSE "Yonetisim Riski"

\* The pillars of the assessed (last) record whose score is below 40.
Flagged(data) ==
    {p \in Pillars : Len(data) > 0 /\ data[Len(data)][p] # Undefined /\ data[Len(data)][p] < 40}

\* C10: the risks are one entry for each pillar of the assessed record with a
\* score below 40 and nothing else, totalRiskCount is their number, and
\* riskLevel is high for 3 entries, medium for 1 or 2, low for none.
C10_RiskEntries ==
    Assessed =>
        LET risks == tool.out.risks
            flagged == Flagged(tool.in.data)
        IN /\ {risks[i].type : i \in 1..Len(risks)} = {RiskType(p) : p \in flagged}
           /\ Len(risks) = Cardinality(flagged)
           /\ tool.out.totalRiskCount = Len(risks)
           /\ (tool.out.riskLevel = "Yuksek") = (Len(risks) = 3)
           /\ (tool.out.riskLevel = "Orta") = (Len(risks) \in {1, 2})
           /\ (tool.out.riskLevel = "Dusuk") = (Len(risks) = 0)

\* Environment 39, social 40, governance 40: one environmental entry, medium.
C10_Witness ==
    /\ Assessed
    /\ Len(tool.in.data) = 2
    /\ tool.in.data[2] = [environment_score |-> 39, social_score |-> 40, governance_score |-> 40]
    /\ tool.out.totalRiskCount = 1
    /\ tool.out.risks[1].type = "Cevresel Risk"
    /\ tool.out.riskLevel = "Orta"

Marketed == tool.fn = "analyzeSectorMetrics"

\* The positions of the hits whose metric value is a number or begins with one.
NumericAt(results, metric) ==
    {i \in 1..Len(results) :
        /\ metric \in DOMAIN results[i].metadata
        /\ results[i].metadata[metric].type \in {"number", "numeric text"}}

RECURSIVE TotalAt(_, _, _)
TotalAt(results, metric, at) ==
    IF at = {} THEN 0
    ELSE LET i == CHOOSE j \in at : TRUE
         IN results[i].metadata[metric].num + TotalAt(results, metric, at \ {i})

\* C11: totalCompanies is the number of hits with a numeric metric value,
\* averageScore the nearest hundredth of their mean, and topPerformers the
\* (at most 10) highest of their scores in descending order: for every score x
\* as many performers score x or more as hits do, up to 10; the scores
\* [40, 50, 90] give "60.00" and the order [90, 50, 40].
C11_SectorMetrics ==
    Marketed =>
        LET results == tool.in.results
            metric == tool.in.metric
            at == NumericAt(results, metric)
            n == Cardinality(at)
            top == tool.out.topPerformers
            cut == IF n < 10 THEN n ELSE 10
        IN /\ tool.out.totalCompanies = n
           /\ n > 0 => /\ tool.out.averageScore.text = "number"
                       /\ Nearest(tool.out.averageScore.hundredths, TotalAt(results, metric, at), n)
           /\ Len(top) = cut
           /\ \A i, j \in 1..Len(top) : i < j => top[i].score >= top[j].score
           /\ \A x \in {results[i].metadata[metric].num : i \in at} :
                LET above == Cardinality({i \in at : results[i].metadata[metric].num >= x})
                IN Cardinality({k \in 1..Len(top) : top[k].score >= x})
                     = (IF above < 10 THEN above ELSE 10)
           /\ \A k \in 1..Len(top) : \E i \in at :
                /\ top[k].score = results[i].metadata[metric].num
                /\ top[k].company = results[i].metadata.company_name
           /\ (at = 1..Len(results) /\ [i \in 1..Len(results) |-> results[i].metadata[metric]]
                                            = <<Number(40), Number(50), Number(90)>>)
                => /\ tool.out.averageScore.hundredths = 6000
                   /\ [k \in 1..Len(top) |-> top[k].score] = <<90, 50, 40>>

\* The scores 40, 50, 90 in that order of three companies' hits.
C11_Witness ==
    /\ Marketed
    /\ tool.in.metric = "environment_score"
    /\ tool.in.results = <<MarketHit("Acme", Number(40)), MarketHit("Bolt", Number(50)),
                           MarketHit("Acme", Number(90))>>
    /\ tool.out.averageScore = [text |-> "number", hundredths |-> 6000]
    /\ tool.out.topPerformers[1].score = 90
    /\ tool.out.topPerformers[3].score = 40
    /\ tool.out.totalCompanies = 3

ESGAnalyzed == tool.fn = "analyzeESGData"

\* The hits of the ESG analyzer that carry a value of a requested metric.
UsableESG(results, metrics) ==
    {i \in 1..Len(results) :
        /\ results[i].metadata.record_type = "esg_data"
        /\ \E k \in 1..Len(metrics) : results[i].metadata[metrics[k]] # Undefined}

\* C12: when no hit carries a usable value, the sector analyzer reports
\* totalCompanies = 0 (and the average 0.00), and the ESG analyzer reports
\* dataPoints = 0.
C12_NoUsableValueCountsZero ==
    /\ (Marketed /\ NumericAt(tool.in.results, tool.in.metric) = {}) =>
            /\ tool.out.totalCompanies = 0
            /\ tool.out.averageScore = [text |-> "number", hundredths |-> 0]
    /\ (ESGAnalyzed /\ UsableESG(tool.in.results, tool.in.metrics) = {}) =>
            /\ "dataPoints" \in DOMAIN tool.out
            /\ tool.out.dataPoints = 0

ByCompany == Searched /\ tool.where.kind = "or"

\* The documents of the collection that satisfy one of the three clauses.
EligibleFor(name, upper) ==
    {d \in ToolCorpus :
        \/ d.metadata.company = name
        \/ \E i \in 1..Len(d.metadata.company) :
                i + Len(name) - 1 <= Len(d.metadata.company)
                /\ \A k \in 1..Len(name) : d.metadata.company[i + k - 1] = name[k]
        \/ d.metadata.ticker = upper}

\* C13: the filter searchByCompany(name) sends is the $or of company = name,
\* company contains name and ticker = the upper-cased name (APPLE for Apple,
\* AAPL for aapl), and the hits are exactly the documents that satisfy one of
\* the three, so that 'Apple Inc.' is a hit for 'Apple'.
C13_CompanyFilter ==
    ByCompany =>
        LET name == tool.where.clauses[1].value
            upper == tool.where.clauses[3].value
        IN /\ Len(tool.where.clauses) = 3
           /\ tool.where.clauses[1] = Clause("company", "$eq", name)
           /\ tool.where.clauses[2] = Clause("company", "$contains", name)
           /\ tool.where.clauses[3].field = "ticker" /\ tool.where.clauses[3].operator = "$eq"
           /\ name = Apple => upper = <<"A", "P", "P", "L", "E">>
           /\ name = <<"a", "a", "p", "l">> => upper = AAPL
           /\ {tool.out[i].metadata : i \in 1..Len(tool.out)}
                = {d.metadata : d \in EligibleFor(name, upper)}
           /\ name = Apple => \E i \in 1..Len(tool.out) : tool.out[i].metadata.company = AppleInc

\* 'Apple' was searched and 'Apple Inc.' is the first of two hits.
C13_Witness ==
    /\ ByCompany
    /\ tool.where.clauses[1].value = Apple
    /\ Len(tool.out) = 2
    /\ tool.out[1].metadata.company = AppleInc
    /\ tool.out[1].metadata.company # Apple

ToolAnswered == tool.fn \in {"rag_retriever", "market_analyzer", "esg_analyzer"}

\* The request lacks a field its tool requires.
Malformed ==
    \/ tool.fn = "rag_retriever" /\ (tool.in.kind # "object" \/ tool.in.query = "")
    \/ tool.fn = "market_analyzer" /\ tool.in.kind = "object"
            /\ (tool.in.sector = "" \/ tool.in.metric = "")
    \/ tool.fn = "esg_analyzer" /\ tool.in.kind = "object" /\ tool.in.company = <<>>

\* C14: a request that lacks a required field is answered with an error result
\* and no call of that request reaches the store.
C14_MalformedRejected ==
    (ToolAnswered /\ Malformed) => (tool.out.kind = "error" /\ tool.calls = <<>>)

\* C15: a /message request with a message and with a sessionId that is absent
\* or that the session store does not hold, made while the agent is ready, is
\* forwarded to the agent under a session created for it, and is not answered
\* with a failure.
C15_UnknownSessionCreated ==
    [][\A c \in Clients :
        (/\ chat[c].pc = "idle"
         /\ <<chat'[c], reply'[c]>> # <<chat[c], reply[c]>>
         /\ agentReady
         /\ \/ /\ chat'[c].pc = "await"
               /\ chat'[c].sessionId \notin sessions
            \/ /\ reply'[c].route = "message"
               /\ reply'[c].message # ""
               /\ reply'[c].asked \notin sessions)
        => /\ chat'[c].pc = "await"
           /\ chat'[c].sessionId \in sessions' \ sessions
           /\ reply'[c] = reply[c]]_vars

Last(q) == q[Len(q)]

Issues(m, name) == calls'[m] = Append(calls[m], name)

Times(q, name) == Cardinality({i \in 1..Len(q) : q[i] = name})

\* C16: a createCollection answered with already-exists (the collection is
\* there, no fault) raises nothing; the step that follows a createCollection
\* in the same run is one getCollection, which ends the run; a createCollection
\* that fails otherwise ends the run with that error and no getCollection; and
\* no run issues createCollection or listCollections twice, or getCollection
\* twice.
C16_SingleFallback ==
    [][\A m \in Managers :
        /\ (Issues(m, "createCollection") /\ faults' = faults /\ collections # {}) =>
                (op'[m] = op[m] /\ ret'[m] = ret[m])
        /\ (op[m] # "none" /\ calls[m] # <<>> /\ Last(calls[m]) = "createCollection"
                /\ calls'[m] # calls[m]) =>
                (Issues(m, "getCollection") /\ op'[m] = "none"
                    /\ ret'[m].status \in {"ok", "raised"})
        /\ (Issues(m, "createCollection") /\ faults' < faults) =>
                (op'[m] = "none" /\ ret'[m].status = "raised" /\ ret'[m].error = "remote")
        /\ \A name \in {"listCollections", "createCollection", "getCollection"} :
                Times(calls'[m], name) <= 1]_vars

\* The create lost the race, and the one getCollection that followed failed.
C16_Witness ==
    \E m \in Managers :
        /\ calls[m] = <<"listCollections", "createCollection", "getCollection">>
        /\ op[m] = "none"
        /\ ret[m].status = "raised"
        /\ ~isReady[m]

\* C17: a listCollections that shows the name is followed by getCollection, one
\* that does not by createCollection; the getCollection of a listed name ends
\* the run, by its handle or by its error, and no createCollection is issued
\* in that run.
C17_AttachWhenListed ==
    [][\A m \in Managers :
        /\ (Issues(m, "listCollections") /\ faults' = faults) =>
                pc'[m] = (IF collections # {} THEN "get" ELSE "create")
        /\ Issues(m, "createCollection") => pc[m] = "create"
        /\ (pc[m] = "get" /\ calls'[m] # calls[m]) =>
                /\ Issues(m, "getCollection")
                /\ op'[m] = "none"
                /\ ret'[m].status \in {"ok", "raised"}
                /\ Times(calls'[m], "createCollection") = 0
                /\ Times(calls'[m], "getCollection") = 1]_vars

\* The name was listed and the getCollection failed: no create was tried.
C17_Witness ==
    \E m \in Managers :
        /\ calls[m] = <<"listCollections", "getCollection">>
        /\ op[m] = "none"
        /\ ret[m].status = "raised"
        /\ collections # {}

\* C18: whenever initialize() raises, the manager is not READY afterwards.
C18_RaiseLeavesFailed ==
    [][\A m \in Managers :
        (Completes(m, "initialize") /\ ret'[m].status = "raised") => ~isReady'[m]]_vars

RowIds(from, to) == {DocId(csv[k], k - 1) : k \in from..(IF to < Len(csv) THEN to ELSE Len(csv))}

\* C20: an add is issued only by a run in progress, and it is the add of the
\* batch after the batches already added, each of which was added once; when
\* it fails the run ends raising, the collection is left as the earlier
\* batches made it and the loop does not advance; when it succeeds the
\* collection gains the ids of exactly that batch and the run goes on iff rows
\* are left.
C20_SequentialBatches ==
    [][\A m \in Managers :
        Issues(m, "add") =>
            /\ op[m] = "addESGData"
            /\ Len(calls[m]) * batchSize = idx[m]
            /\ idx[m] < Len(csv)
            /\ IF op'[m] = "none" /\ ret'[m].status = "raised"
               THEN /\ ret'[m].op = "addESGData"
                    /\ documents' = documents
                    /\ idx'[m] = idx[m]
               ELSE /\ documents[collection[m]] \subseteq documents'[collection[m]]
                    /\ IdsOf(documents'[collection[m]])
                         = IdsOf(documents[collection[m]]) \cup RowIds(idx[m] + 1, idx[m] + batchSize)
                    /\ idx'[m] = idx[m] + batchSize
                    /\ (op'[m] = "addESGData") = (idx'[m] < Len(csv))]_vars

\* The second batch of a run failed: the run raised after two adds and the
\* document of the first batch is in the collection.
C20_Witness ==
    /\ runs = 1
    /\ op[Solo] = "none"
    /\ ret[Solo] = Ret("addESGData", "raised", "duplicate", 0, NoHits)
    /\ calls[Solo] = <<"add", "add">>
    /\ batchSize = 1
    /\ IdsOf(documents[1]) = {DocId(csv[1], 0)}

AddCalled == tool.fn = "add"

\* C21: the documents, metadatas and ids of every collection.add are as long
\* as the batch, and the entries at position i are the text, the metadata and
\* the id of the record at position i of the batch: its score in the text and
\* in the metadata, its ticker and date (or their defaults) in all three.
C21_ArraysAligned ==
    AddCalled =>
        LET batch == tool.in.batch
            args == tool.out
        IN /\ Len(args.documents) = Len(batch)
           /\ Len(args.metadatas) = Len(batch)
           /\ Len(args.ids) = Len(batch)
           /\ \A i \in 1..Len(batch) :
                /\ args.documents[i].total = ToString(batch[i].total_esg_score)
                /\ args.documents[i].ticker = (IF batch[i].Ticker = "" THEN "N/A" ELSE batch[i].Ticker)
                /\ args.metadatas[i].total_esg_score = batch[i].total_esg_score
                /\ args.metadatas[i].ticker = batch[i].Ticker
                /\ args.metadatas[i].date = batch[i].Date
                /\ args.ids[i][1] = (IF batch[i].Ticker = "" THEN "unknown" ELSE batch[i].Ticker)
                /\ args.ids[i][2] = (IF batch[i].Date = 0 THEN tool.in.startIndex + i - 1
                                     ELSE batch[i].Date)

\* An add of two records that differ in ticker, date and score.
C21_Witness ==
    /\ AddCalled
    /\ Len(tool.in.batch) = 2
    /\ tool.in.batch[1].Ticker = "A" /\ tool.in.batch[2].Ticker = ""
    /\ tool.in.batch[1].Date = 2020 /\ tool.in.batch[2].Date = 0
    /\ tool.in.batch[1].total_esg_score # tool.in.batch[2].total_esg_score
    /\ tool.out.ids = << <<"A", 2020>>, <<"unknown", 1>> >>

MarketAnalysed == tool.fn = "market_analyzer" /\ tool.out.kind = "analysis"

\* C22: every hit the market analyzer works on has the peer_group of the
\* request and a date of the requested time range, and no more hits are
\* counted than the collection has such documents.
C22_TimeRangeRestricts ==
    (MarketAnalysed /\ tool.in.sector # "") =>
        /\ \A i \in 1..Len(ret[Solo].hits) :
            /\ ret[Solo].hits[i].metadata.peer_group = tool.in.sector
            /\ ToString(ret[Solo].hits[i].metadata.date) = tool.in.timeRange
        /\ tool.in.metric # "" =>
            tool.out.analysis.totalCompanies <=
                Cardinality({d \in ToolCorpus : /\ d.metadata.peer_group = tool.in.sector
                                                /\ ToString(d.metadata.date) = tool.in.timeRange})

ESGAnalysed == tool.fn = "esg_analyzer" /\ tool.out.kind = "analysis"

\* The hit of the latest, and of the earliest, date among the hits.
LatestHit(hits) ==
    hits[CHOOSE i \in 1..Len(hits) : \A j \in 1..Len(hits) : hits[j].metadata.date <= hits[i].metadata.date]

EarliestHit(hits) ==
    hits[CHOOSE i \in 1..Len(hits) : \A j \in 1..Len(hits) : hits[j].metadata.date >= hits[i].metadata.date]

\* C23: in whatever order the store returned the hits of the company, the
\* current value of the metric is that of the latest record, the change is
\* the latest value minus the earliest, and the environmental risk is flagged
\* iff the latest record scores below 40.
C23_ChronologicalTrend ==
    (ESGAnalysed /\ Len(ret[Solo].hits) >= 2) =>
        LET hits == ret[Solo].hits
            latest == LatestHit(hits).metadata.environment_score
            earliest == EarliestHit(hits).metadata.environment_score
            analysis == tool.out.analysis
        IN /\ analysis.trends["environment_score"].current = latest
           /\ analysis.trends["environment_score"].change.hundredths = 100 * (latest - earliest)
           /\ (analysis.riskAssessment.totalRiskCount > 0) = (latest < 40)

\* C24: when a remote call other than deleteCollection fails, the operation
\* that issued it ends in that step by raising the failure to its caller.
C24_FailuresRaised ==
    [][\A m \in Managers :
        (faults' < faults /\ calls'[m] # <<>> /\ calls'[m] # calls[m]
            /\ Last(calls'[m]) # "deleteCollection") =>
            /\ op'[m] = "none"
            /\ ret'[m].status = "raised"
            /\ ret'[m].error = "remote"]_vars

\* The add the state shows belongs to the run whose file the state shows.
AddOfRun == AddCalled /\ calls[Solo] # <<>>

Lacking(record) == record.Ticker = "" /\ record.Date = 0

\* C25: in every add of a run, a record without Ticker and Date has the id
\* esg_unknown_<its position in the file, from 0>, which differs from the id of
\* every other such record of the batch and of the batches before it.
C25_FallbackIdsDistinct ==
    AddOfRun =>
        LET batch == tool.in.batch
            start == tool.in.startIndex
            ids == tool.out.ids
        IN \A i \in 1..Len(batch) :
            Lacking(batch[i]) =>
                /\ csv[start + i] = batch[i]
                /\ ids[i] = <<"unknown", start + i - 1>>
                /\ \A j \in 1..Len(batch) : (j # i /\ Lacking(batch[j])) => ids[j] # ids[i]
                /\ \A k \in 1..start : Lacking(csv[k]) => <<"unknown", k - 1>> # ids[i]

\* Two records without Ticker and Date, written by two adds of one record.
C25_Witness ==
    /\ AddOfRun
    /\ batchSize = 1
    /\ Len(csv) = 2 /\ Lacking(csv[1]) /\ Lacking(csv[2])
    /\ tool.in.startIndex = 1
    /\ tool.out.ids = << <<"unknown", 1>> >>
    /\ <<"unknown", 0>> \in IdsOf(documents[1])

\* The run of the state ended because an add failed.
BatchFailed ==
    /\ AddOfRun
    /\ op[Solo] = "none"
    /\ ret[Solo].op = "addESGData"
    /\ ret[Solo].status = "raised"

\* The start indexes of the batches of the file.
BatchStarts == {s \in 0..(Len(csv) - 1) : s % batchSize = 0}

\* C26: the error addESGData raises for a failed batch is the error of that
\* batch only: the failure of a batch that starts elsewhere raises another one.
C26_ErrorNamesBatch ==
    BatchFailed =>
        /\ ret[Solo] = BatchError(ret[Solo].error, tool.in.startIndex)
        /\ \A s \in BatchStarts \ {tool.in.startIndex} :
              BatchError(ret[Solo].error, s) # ret[Solo]

SameKey(a, b) == a.Ticker = b.Ticker /\ a.Date = b.Date

\* C27: in every add of a run, a record of the batch has the id of another row
\* of the batch, or of a row of the batches before it, only when the two have
\* the same Ticker and the same Date.
C27_SameIdSameKey ==
    AddOfRun =>
        LET batch == tool.in.batch
            start == tool.in.startIndex
            ids == tool.out.ids
        IN \A i \in 1..Len(batch) :
            /\ \A j \in 1..Len(batch) :
                  (j # i /\ ids[j] = ids[i]) => SameKey(batch[i], batch[j])
            /\ \A k \in 1..start :
                  DocId(csv[k], k - 1) = ids[i] => SameKey(batch[i], csv[k])

\* C28: a READY manager with no operation in progress holds the handle of a
\* collection the store has (the manager is the only process of Spec).
C28_ReadyHandleLive ==
    (isReady[Solo] /\ op[Solo] = "none" /\ pc[Solo] = "idle") =>
        collection[Solo] \in collections

\* A transcript of (user, assistant) pairs.
Paired(t) ==
    /\ Len(t) % 2 = 0
    /\ \A k \in 1..Len(t) : t[k].type = (IF k % 2 = 1 THEN "user" ELSE "assistant")

\* The /message request of c ends in this step with the answer of the agent.
Answers200(c) ==
    /\ chat[c].pc = "await"
    /\ chat'[c].pc = "idle"
    /\ reply'[c].status = 200

\* C29: every transcript is a sequence of (user, assistant) pairs; transcripts
\* change only in the step in which a /message request gets the answer of its
\* agent call, and then by the pair of that request put at the end of the
\* transcript of its session; a /history answer counts the messages of the
\* session and lists its last 50, or all when there are fewer, in their order.
C29_PairedTranscripts ==
    [][/\ \A id \in SessionIds : Paired(transcripts[id]) /\ Paired(transcripts'[id])
       /\ transcripts' # transcripts =>
            \E c \in Clients :
                /\ Answers200(c)
                /\ LET id == chat[c].sessionId
                       old == transcripts[id]
                       new == transcripts'[id]
                   IN /\ Len(new) = Len(old) + 2
                      /\ SubSeq(new, 1, Len(old)) = old
                      /\ new[Len(old) + 1].type = "user"
                      /\ new[Len(old) + 1].content = chat[c].message
                      /\ new[Len(old) + 2].type = "assistant"
                      /\ \A other \in SessionIds \ {id} :
                            transcripts'[other] = transcripts[other]
       /\ \A c \in Clients :
            (reply'[c] # reply[c] /\ reply'[c].route = "history" /\ reply'[c].status = 200) =>
                LET t == transcripts[reply'[c].asked]
                    shown == reply'[c].messages
                IN /\ reply'[c].messageCount = Len(t)
                   /\ Len(shown) = Min(HistoryLimit, Len(t))
                   /\ \A k \in 1..Len(shown) : shown[k] = t[Len(t) - Len(shown) + k]]_vars

\* A /history answer for a session of more than 50 messages: the two oldest
\* are left out.
C29_Witness ==
    \E c \in Clients :
        /\ reply[c].route = "history"
        /\ reply[c].status = 200
        /\ reply[c].messageCount = HistoryLimit + 2
        /\ Len(reply[c].messages) = HistoryLimit
        /\ reply[c].messages[1].id = 3
        /\ \E d \in Clients \ {c} : reply[d].route = "message" /\ reply[d].status = 500

\* C30: every chunkText call returns: each turn of its loop leaves start
\* further into the text than it found it, so the loop condition fails after
\* at most text.length turns.
C30_ChunkTextReturns ==
    [][(chunker.pc = "loop" /\ chunker'.pc = "loop") =>
            chunker'.start > chunker.start]_vars
====
